---- MODULE Spec2Model ----
(***************************************************************************)
(* Bracket-indexed form decoder of the pydantic form example (stage        *)
(* 4_nested_union): Person.json_editor_parse, indexed_dicts_to_lists and   *)
(* the validation of the decoded tree against the Person schema.           *)
(*                                                                         *)
(* Strings are sequences of tokens.  A token is an atom of text: "root",   *)
(* "[", "]", one decimal digit, or a word.  A key such as root[hobbies][0] *)
(* is <<"root","[","hobbies","]","[","0","]">>; the number 30 as text is   *)
(* <<"3","0">>.  Every Python value is one record shape (Node) so that any *)
(* two values can be compared.                                             *)
(***************************************************************************)
EXTENDS Integers, Sequences, FiniteSets, TLC

\* ------------------------------------------------------------------ bounds
MaxKeys == 3
MaxHobbies == 2
MaxContacts == 2
\* persons the app stores before it takes no more
MaxModels == 2

\* ------------------------------------------------------------ Python values
\* kind: "str" | "int" | "none" | "list" | "dict" | "NestedDict"
\* val: the text of a str; num: the value of an int;
\* keys/items: the keys (in insertion order) and values of a dict,
\* items alone: the elements of a list.
Str(s) == [kind |-> "str", val |-> s, num |-> 0, keys |-> <<>>, items |-> <<>>]
IntV(n) == [kind |-> "int", val |-> <<>>, num |-> n, keys |-> <<>>, items |-> <<>>]
NoneV == [kind |-> "none", val |-> <<>>, num |-> 0, keys |-> <<>>, items |-> <<>>]
ListV(xs) == [kind |-> "list", val |-> <<>>, num |-> 0, keys |-> <<>>, items |-> xs]
DictV(ks, xs) == [kind |-> "dict", val |-> <<>>, num |-> 0, keys |-> ks, items |-> xs]
NestedDict == [kind |-> "NestedDict", val |-> <<>>, num |-> 0, keys |-> <<>>, items |-> <<>>]

\* isinstance(x, dict): NestedDict is a subclass of dict
IsDict(x) == x.kind \in {"dict", "NestedDict"}
IsList(x) == x.kind = "list"

\* position of key k in dict d, 0 when absent
KeyPos(d, k) ==
    IF \E i \in 1..Len(d.keys) : d.keys[i] = k
    THEN CHOOSE i \in 1..Len(d.keys) : d.keys[i] = k
    ELSE 0
HasKey(d, k) == KeyPos(d, k) # 0
\* d[k] for a present key
GetItem(d, k) == d.items[KeyPos(d, k)]
\* d[k] = v: a present key keeps its position, a new key goes last
SetItem(d, k, v) ==
    IF HasKey(d, k)
    THEN [d EXCEPT !.items[KeyPos(d, k)] = v]
    ELSE [d EXCEPT !.keys = Append(d.keys, k), !.items = Append(d.items, v)]

\* type(v)(): the empty value of v's type
TypeDefault(v) ==
    CASE v.kind = "str" -> Str(<<>>)
      [] v.kind = "int" -> IntV(0)
      [] v.kind = "none" -> NoneV
      [] v.kind = "list" -> ListV(<<>>)
      [] v.kind = "dict" -> DictV(<<>>, <<>>)
      [] OTHER -> NestedDict

\* ------------------------------------------------------------------ strings
DigitTokens == <<"0", "1", "2", "3", "4", "5", "6", "7", "8", "9">>
IsDigitToken(t) == \E i \in 1..10 : DigitTokens[i] = t
DigitValue(t) == (CHOOSE i \in 1..10 : DigitTokens[i] = t) - 1

\* str.isdigit(): non-empty and every character a digit
IsDigit(s) == s # <<>> /\ \A i \in 1..Len(s) : IsDigitToken(s[i])

\* int(s) for a digit string
RECURSIVE ParseInt(_)
ParseInt(s) ==
    IF s = <<>> THEN 0
    ELSE 10 * ParseInt(SubSeq(s, 1, Len(s) - 1)) + DigitValue(s[Len(s)])

\* str(n) for n >= 0
RECURSIVE FormatNat(_)
FormatNat(n) ==
    IF n < 10 THEN <<DigitTokens[n + 1]>>
    ELSE Append(FormatNat(n \div 10), DigitTokens[(n % 10) + 1])

\* k.startswith("root[") and k.endswith("]")
IsStructured(k) ==
    /\ Len(k) >= 3
    /\ k[1] = "root"
    /\ k[2] = "["
    /\ k[Len(k)] = "]"

\* the prefix removed, the closing bracket left in place
StripRoot_keepsuffix(k) == SubSeq(k, 3, Len(k))

\* k.removeprefix("root[").removesuffix("]")
StripRoot(k) == SubSeq(k, 3, Len(k) - 1)

\* s.split("]["): leftmost non-overlapping separators; always >= 1 part
RECURSIVE SplitFrom(_, _, _)
SplitFrom(s, i, cur) ==
    IF i > Len(s) THEN <<cur>>
    ELSE IF i < Len(s) /\ s[i] = "]" /\ s[i + 1] = "["
         THEN <<cur>> \o SplitFrom(s, i + 2, <<>>)
         ELSE SplitFrom(s, i + 1, Append(cur, s[i]))
Split(s) == SplitFrom(s, 1, <<>>)

\* ------------------------------------------------------ json_editor_parse
\* outcome of a step on a node: err = "" when no exception was raised
Result(e, n) == [err |-> e, node |-> n]

\* while len(parent) <= i: parent.append(fill)
PadTo(xs, i, fill) ==
    IF Len(xs) > i THEN xs
    ELSE xs \o [j \in 1..(i + 1 - Len(xs)) |-> fill]

\* the final store with a scalar parent replaced by a fresh NestedDict
StoreLeaf_vivify(parent, leaf, v) ==
    IF IsList(parent)
    THEN IF ~IsDigit(leaf)
         THEN Result("ValueError", parent)
         ELSE LET i == ParseInt(leaf)
                  padded == PadTo(parent.items, i, TypeDefault(v))
              IN Result("", [parent EXCEPT !.items = [padded EXCEPT ![i + 1] = v]])
    ELSE IF IsDict(parent)
         THEN Result("", SetItem(parent, leaf, v))
         ELSE Result("", SetItem(NestedDict, leaf, v))

\* a word as the last segment is appended to the list
StoreLeaf_appendword(parent, leaf, v) ==
    IF IsList(parent)
    THEN IF ~IsDigit(leaf)
         THEN Result("", [parent EXCEPT !.items = Append(parent.items, v)])
         ELSE LET i == ParseInt(leaf)
                  padded == PadTo(parent.items, i, TypeDefault(v))
              IN Result("", [parent EXCEPT !.items = [padded EXCEPT ![i + 1] = v]])
    ELSE IF IsDict(parent)
         THEN Result("", SetItem(parent, leaf, v))
         ELSE Result("TypeError", parent)

\* the final store with new list positions filled with None
StoreLeaf_nonefill(parent, leaf, v) ==
    IF IsList(parent)
    THEN IF ~IsDigit(leaf)
         THEN Result("ValueError", parent)
         ELSE LET i == ParseInt(leaf)
                  padded == PadTo(parent.items, i, NoneV)
              IN Result("", [parent EXCEPT !.items = [padded EXCEPT ![i + 1] = v]])
    ELSE IF IsDict(parent)
         THEN Result("", SetItem(parent, leaf, v))
         ELSE Result("TypeError", parent)

\* final segment: store v under leaf in parent
StoreLeaf(parent, leaf, v) ==
    IF IsList(parent)
    THEN IF ~IsDigit(leaf)
         THEN Result("ValueError", parent)
         ELSE LET i == ParseInt(leaf)
                  padded == PadTo(parent.items, i, TypeDefault(v))
              IN Result("", [parent EXCEPT !.items = [padded EXCEPT ![i + 1] = v]])
    ELSE IF IsDict(parent)
         THEN Result("", SetItem(parent, leaf, v))
         ELSE Result("TypeError", parent)

\* the while loop over sub_ks followed by the store of the leaf; the
\* returned node is parent after every mutation made up to the return or
\* the exception
RECURSIVE Walk(_, _, _, _)
Walk(parent, sub_ks, leaf, v) ==
    IF sub_ks = <<>> THEN StoreLeaf(parent, leaf, v)
    ELSE LET sub_k == Head(sub_ks)
             rest == Tail(sub_ks)
         IN IF IsList(parent)
            THEN IF ~IsDigit(sub_k)
                 THEN Result("ValueError", parent)
                 ELSE LET i == ParseInt(sub_k)
                          sub_type == IF rest # <<>> /\ IsDigit(rest[1])
                                      THEN ListV(<<>>)
                                      ELSE NestedDict
                          padded == PadTo(parent.items, i, sub_type)
                          r == Walk(padded[i + 1], rest, leaf, v)
                      IN Result(r.err,
                                [parent EXCEPT !.items = [padded EXCEPT ![i + 1] = r.node]])
            ELSE IF IsDict(parent)
                 THEN IF HasKey(parent, sub_k)
                      THEN LET r == Walk(GetItem(parent, sub_k), rest, leaf, v)
                           IN Result(r.err, SetItem(parent, sub_k, r.node))
                      ELSE IF parent.kind = "NestedDict"
                           THEN \* NestedDict.__missing__
                                LET r == Walk(NestedDict, rest, leaf, v)
                                IN Result(r.err, SetItem(parent, sub_k, r.node))
                           ELSE Result("KeyError", parent)
                 ELSE \* subscripting a str, an int or None with a str
                      Result("TypeError", parent)

\* the loop body without its else branch: a plain key is not stored
InsertKey_dropplain(out, k, v) ==
    IF IsStructured(k)
    THEN LET segs == Split(StripRoot(k))
         IN Walk(out, SubSeq(segs, 1, Len(segs) - 1), segs[Len(segs)], v)
    ELSE Result("", out)

\* one iteration of "for k, v in data.items()" on the tree out
InsertKey(out, k, v) ==
    IF IsStructured(k)
    THEN LET segs == Split(StripRoot(k))
         IN Walk(out, SubSeq(segs, 1, Len(segs) - 1), segs[Len(segs)], v)
    ELSE Result("", SetItem(out, k, v))

\* the segments a key addresses: a plain key addresses a top-level field
Segments(k) == IF IsStructured(k) THEN Split(StripRoot(k)) ELSE <<k>>

\* the child of node n under the segment s: [found, node]
Child(n, s) ==
    IF IsDict(n) /\ HasKey(n, s) THEN [found |-> TRUE, node |-> GetItem(n, s)]
    ELSE IF IsList(n) /\ IsDigit(s) /\ ParseInt(s) < Len(n.items)
         THEN [found |-> TRUE, node |-> n.items[ParseInt(s) + 1]]
         ELSE [found |-> FALSE, node |-> NoneV]

\* the node of tree at the path of segments: [found, node]
RECURSIVE NodeAt(_, _)
NodeAt(tree, path) ==
    IF path = <<>> THEN [found |-> TRUE, node |-> tree]
    ELSE LET c == Child(tree, Head(path))
         IN IF c.found THEN NodeAt(c.node, Tail(path)) ELSE c

\* ------------------------------------------------- indexed_dicts_to_lists
\* all(sub_k.isdigit() for sub_k in d.keys()); true of an empty dict
AllDigitKeys(d) == \A i \in 1..Len(d.keys) : IsDigit(d.keys[i])

RECURSIVE indexed_dicts_to_lists(_)
indexed_dicts_to_lists(d) ==
    IF ~IsDict(d) THEN d
    ELSE IF d.keys # <<>> /\ AllDigitKeys(d)
         THEN ListV([i \in 1..Len(d.items) |-> indexed_dicts_to_lists(d.items[i])])
         ELSE DictV(d.keys,
                    [i \in 1..Len(d.items) |->
                        LET v == d.items[i]
                        IN IF IsDict(v) /\ AllDigitKeys(v)
                           THEN ListV([j \in 1..Len(v.items) |->
                                          indexed_dicts_to_lists(v.items[j])])
                           ELSE IF IsDict(v)
                                THEN indexed_dicts_to_lists(v)
                                ELSE IF IsList(v)
                                     THEN ListV([j \in 1..Len(v.items) |->
                                                    indexed_dicts_to_lists(v.items[j])])
                                     ELSE v])

\* ------------------------------------------------------------ typed values
\* Address; the value None of the field address is NoAddress
Address(h, s, c) == [present |-> TRUE, house_number |-> h, street |-> s, city |-> c]
NoAddress == [present |-> FALSE, house_number |-> 0, street |-> <<>>, city |-> <<>>]

\* Contact and its subclasses: cls is the class of the value; known_since
\* (seconds after the epoch) is a field of Friend, relationship of
\* FamilyMember
ContactV(c, n, k, r) == [cls |-> c, name |-> n, known_since |-> k, relationship |-> r]

\* Contact.get_subclasses(): the class itself, then its subclasses
get_subclasses == <<"Contact", "Friend", "FamilyMember">>
\* Contact.get_annotated_subclass_types(): each class tagged by its __name__
get_annotated_subclass_types == {<<get_subclasses[i]>> : i \in 1..Len(get_subclasses)}

\* Contact._type of a typed contact
TypeOf(c) == <<c.cls>>

Person(n, a, j, ad, h, c) ==
    [name |-> n, age |-> a, job |-> j, address |-> ad, hobbies |-> h, contacts |-> c]
BlankPerson == Person(<<>>, 0, <<>>, NoAddress, <<>>, <<>>)

\* the declared defaults of Person
DefaultJob == <<"Developer">>
DefaultAddress == NoAddress
DefaultHobbies == <<>>
DefaultContacts == <<>>

\* --------------------------------------------------------------- datetimes
\* a datetime d seconds after the epoch (d < 60) in ISO 8601, as
\* model_dump_json writes it: 1970-01-01T00:00:SSZ
FormatDatetime(d) ==
    <<"1970-01-01T00:00:">> \o (IF d < 10 THEN <<"0">> ELSE <<>>) \o FormatNat(d) \o <<"Z">>
IsDatetimeText(s) ==
    /\ Len(s) = 4
    /\ s[1] = "1970-01-01T00:00:"
    /\ IsDigitToken(s[2]) /\ IsDigitToken(s[3])
    /\ ParseInt(<<s[2], s[3]>>) < 60
    /\ s[4] = "Z"
ParseDatetime(s) == ParseInt(<<s[2], s[3]>>)

\* -------------------------------------------------------------- validation
\* one line of a validation error report
Err(loc, type) == [loc |-> loc, type |-> type]
\* outcome of validating one value: the errors found and, when there are
\* none, the typed value
Valid(x) == [errs |-> {}, val |-> x]
Invalid(es) == [errs |-> es, val |-> <<>>]

\* str
ValidateStr(v, loc) ==
    IF v.kind = "str" THEN Valid(v.val) ELSE Invalid({Err(loc, "string_type")})

\* text of an integer: an optional sign and digits
IsIntText(s) ==
    \/ IsDigit(s)
    \/ Len(s) >= 2 /\ s[1] \in {"-", "+"} /\ IsDigit(Tail(s))
ParseIntText(s) ==
    IF s[1] = "-" THEN 0 - ParseInt(Tail(s))
    ELSE IF s[1] = "+" THEN ParseInt(Tail(s)) ELSE ParseInt(s)

\* int: an int, or (lax mode) the text of one
ValidateInt(v, loc) ==
    IF v.kind = "int" THEN Valid(v.num)
    ELSE IF v.kind = "str"
         THEN IF IsIntText(v.val) THEN Valid(ParseIntText(v.val))
              ELSE Invalid({Err(loc, "int_parsing")})
         ELSE Invalid({Err(loc, "int_type")})

\* pydantic.NonNegativeInt
ValidateNonNegativeInt(v, loc) ==
    LET r == ValidateInt(v, loc)
    IN IF r.errs = {} /\ r.val < 0
       THEN Invalid({Err(loc, "greater_than_equal")})
       ELSE r

\* datetime.datetime: ISO 8601 text, or (lax mode) a number of seconds
ValidateDatetime(v, loc) ==
    IF v.kind = "str"
    THEN IF IsDatetimeText(v.val) THEN Valid(ParseDatetime(v.val))
         ELSE Invalid({Err(loc, "datetime_parsing")})
    ELSE IF v.kind = "int" THEN Valid(v.num)
         ELSE Invalid({Err(loc, "datetime_type")})

\* d.get(name): the entry of the tree for a field, None when there is none
Entry(d, name) == IF HasKey(d, name) THEN GetItem(d, name) ELSE NoneV

\* a field without default: r is the outcome for the entry of the tree; the
\* field is missing when the tree has no entry for it
Required(d, name, loc, r) ==
    IF HasKey(d, name) THEN r ELSE Invalid({Err(Append(loc, name), "missing")})

\* a field with a default handled as a field without one
Defaulted_missing(d, name, r, default) ==
    IF HasKey(d, name) THEN r ELSE Invalid({Err(<<name>>, "missing")})

\* a field with a default: r is the outcome for the entry of the tree
Defaulted(d, name, r, default) ==
    IF HasKey(d, name) THEN r ELSE Valid(default)

\* class Address
ValidateAddress(v, loc) ==
    IF ~IsDict(v) THEN Invalid({Err(loc, "model_type")})
    ELSE LET F(name) == Append(loc, <<name>>)
             h == Required(v, <<"house_number">>, loc,
                           ValidateInt(Entry(v, <<"house_number">>), F("house_number")))
             s == Required(v, <<"street">>, loc,
                           ValidateStr(Entry(v, <<"street">>), F("street")))
             c == Required(v, <<"city">>, loc,
                           ValidateStr(Entry(v, <<"city">>), F("city")))
             es == h.errs \cup s.errs \cup c.errs
         IN IF es = {} THEN Valid(Address(h.val, s.val, c.val)) ELSE Invalid(es)

\* Address | None
ValidateOptionalAddress(v, loc) ==
    IF v.kind = "none" THEN Valid(NoAddress) ELSE ValidateAddress(v, loc)

\* list[T] from the outcomes rs of its elements: every element is
\* validated, the errors of all of them are kept
ListOutcome(rs) ==
    LET es == UNION {rs[i].errs : i \in 1..Len(rs)}
    IN IF es = {} THEN Valid([i \in 1..Len(rs) |-> rs[i].val]) ELSE Invalid(es)

\* list[str]
ValidateHobbies(v, loc) ==
    IF ~IsList(v) THEN Invalid({Err(loc, "list_type")})
    ELSE ListOutcome([i \in 1..Len(v.items) |->
                         ValidateStr(v.items[i], Append(loc, FormatNat(i - 1)))])

\* get_discriminator_value: v.get("_type", None) of a dict; the values of a
\* decoded tree that are not dicts have no attribute _type
get_discriminator_value(v) ==
    IF IsDict(v)
    THEN IF HasKey(v, <<"_type">>) THEN GetItem(v, <<"_type">>) ELSE NoneV
    ELSE NoneV

\* the fields of the class cls read from the dict v
ValidateVariant(cls, v, loc) ==
    LET F(name) == Append(loc, <<name>>)
        n == Required(v, <<"name">>, loc, ValidateStr(Entry(v, <<"name">>), F("name")))
        k == IF cls = "Friend"
             THEN Required(v, <<"known_since">>, loc,
                           ValidateDatetime(Entry(v, <<"known_since">>), F("known_since")))
             ELSE Valid(0)
        r == IF cls = "FamilyMember"
             THEN Required(v, <<"relationship">>, loc,
                           ValidateStr(Entry(v, <<"relationship">>), F("relationship")))
             ELSE Valid(<<>>)
        es == n.errs \cup k.errs \cup r.errs
    IN IF es = {} THEN Valid(ContactV(cls, n.val, k.val, r.val)) ELSE Invalid(es)

\* the union without discriminator: the first class that fits, Contact
ValidateContact_untagged(v, loc) ==
    IF IsDict(v) THEN ValidateVariant("Contact", v, Append(loc, <<"Contact">>))
    ELSE Invalid({Err(loc, "model_type")})

\* the union with the base class as fallback for a missing or unknown tag
ValidateContact_fallback(v, loc) ==
    LET tag == get_discriminator_value(v)
    IN IF tag.kind = "str" /\ tag.val \in get_annotated_subclass_types
       THEN ValidateVariant(tag.val[1], v, Append(loc, tag.val))
       ELSE IF IsDict(v) THEN ValidateVariant("Contact", v, Append(loc, <<"Contact">>))
            ELSE Invalid({Err(loc, "union_tag_not_found")})

\* the union of the tagged subclasses, discriminated by
\* get_discriminator_value
ValidateContact(v, loc) ==
    LET tag == get_discriminator_value(v)
    IN IF tag.kind = "none"
       THEN Invalid({Err(loc, "union_tag_not_found")})
       ELSE IF tag.kind = "str" /\ tag.val \in get_annotated_subclass_types
            THEN ValidateVariant(tag.val[1], v, Append(loc, tag.val))
            ELSE Invalid({Err(loc, "union_tag_invalid")})

\* list of the discriminated union
ValidateContacts(v, loc) ==
    IF ~IsList(v) THEN Invalid({Err(loc, "list_type")})
    ELSE ListOutcome([i \in 1..Len(v.items) |->
                         ValidateContact(v.items[i], Append(loc, FormatNat(i - 1)))])

\* the fields of class Person validated against the tree returned by the
\* before-validator
ValidatePerson(tree) ==
    IF ~IsDict(tree) THEN Invalid({Err(<<>>, "model_type")})
    ELSE LET E(name) == Entry(tree, <<name>>)
             n == Required(tree, <<"name">>, <<>>, ValidateStr(E("name"), <<<<"name">>>>))
             a == Required(tree, <<"age">>, <<>>,
                           ValidateNonNegativeInt(E("age"), <<<<"age">>>>))
             j == Defaulted(tree, <<"job">>, ValidateStr(E("job"), <<<<"job">>>>), DefaultJob)
             ad == Defaulted(tree, <<"address">>,
                             ValidateOptionalAddress(E("address"), <<<<"address">>>>),
                             DefaultAddress)
             h == Defaulted(tree, <<"hobbies">>,
                            ValidateHobbies(E("hobbies"), <<<<"hobbies">>>>), DefaultHobbies)
             c == Defaulted(tree, <<"contacts">>,
                            ValidateContacts(E("contacts"), <<<<"contacts">>>>),
                            DefaultContacts)
             es == n.errs \cup a.errs \cup j.errs \cup ad.errs \cup h.errs \cup c.errs
         IN IF es = {}
            THEN Valid(Person(n.val, a.val, j.val, ad.val, h.val, c.val))
            ELSE [errs |-> es, val |-> BlankPerson]

\* stage 0 validation that stops at the first field in error
ValidatePerson0_firsterror(tree) ==
    IF ~IsDict(tree) THEN Invalid({Err(<<>>, "model_type")})
    ELSE LET E(name) == Entry(tree, <<name>>)
             n == Required(tree, <<"name">>, <<>>, ValidateStr(E("name"), <<<<"name">>>>))
             a == Required(tree, <<"age">>, <<>>,
                           ValidateNonNegativeInt(E("age"), <<<<"age">>>>))
             j == Defaulted(tree, <<"job">>, ValidateStr(E("job"), <<<<"job">>>>), DefaultJob)
             es == IF n.errs # {} THEN n.errs
                   ELSE IF a.errs # {} THEN a.errs ELSE j.errs
         IN IF es = {}
            THEN Valid(Person(n.val, a.val, j.val, NoAddress, <<>>, <<>>))
            ELSE [errs |-> es, val |-> BlankPerson]

\* class Person of stage 0_the_problem: no before-validator, three fields
ValidatePerson0(tree) ==
    IF ~IsDict(tree) THEN Invalid({Err(<<>>, "model_type")})
    ELSE LET E(name) == Entry(tree, <<name>>)
             n == Required(tree, <<"name">>, <<>>, ValidateStr(E("name"), <<<<"name">>>>))
             a == Required(tree, <<"age">>, <<>>,
                           ValidateNonNegativeInt(E("age"), <<<<"age">>>>))
             j == Defaulted(tree, <<"job">>, ValidateStr(E("job"), <<<<"job">>>>), DefaultJob)
             es == n.errs \cup a.errs \cup j.errs
         IN IF es = {}
            THEN Valid(Person(n.val, a.val, j.val, NoAddress, <<>>, <<>>))
            ELSE [errs |-> es, val |-> BlankPerson]

\* ----------------------------------------------------------- serialization
\* the document model_dump_json writes for a contact, as the JSON parser
\* reads it back: the fields of the class, then the computed field _type
DumpContact(c) ==
    LET own == IF c.cls = "Friend"
               THEN <<<<"known_since">>, Str(FormatDatetime(c.known_since))>>
               ELSE IF c.cls = "FamilyMember"
                    THEN <<<<"relationship">>, Str(c.relationship)>>
                    ELSE <<>>
    IN IF own = <<>>
       THEN DictV(<<<<"name">>, <<"_type">>>>, <<Str(c.name), Str(TypeOf(c))>>)
       ELSE DictV(<<<<"name">>, own[1], <<"_type">>>>,
                  <<Str(c.name), own[2], Str(TypeOf(c))>>)

DumpAddress(a) ==
    IF ~a.present THEN NoneV
    ELSE DictV(<<<<"house_number">>, <<"street">>, <<"city">>>>,
               <<IntV(a.house_number), Str(a.street), Str(a.city)>>)

\* Person.model_dump_json(), as the JSON parser reads it back
ModelDumpJson(p) ==
    DictV(<<<<"name">>, <<"age">>, <<"job">>, <<"address">>, <<"hobbies">>, <<"contacts">>>>,
          <<Str(p.name), IntV(p.age), Str(p.job), DumpAddress(p.address),
            ListV([i \in 1..Len(p.hobbies) |-> Str(p.hobbies[i])]),
            ListV([i \in 1..Len(p.contacts) |-> DumpContact(p.contacts[i])])>>)

\* the key root[s1][s2]...[sn] of the segments s1..sn
RECURSIVE BracketKey(_)
BracketKey(segs) ==
    IF segs = <<>> THEN <<"root">>
    ELSE BracketKey(SubSeq(segs, 1, Len(segs) - 1)) \o <<"[">> \o segs[Len(segs)] \o <<"]">>

\* str(n) of any integer
FormatInt(n) == IF n < 0 THEN <<"-">> \o FormatNat(0 - n) ELSE FormatNat(n)

\* one key/value pair of a form
Pair(k, v) == [k |-> k, v |-> v]

\* a dict holding the pairs in their order
FormOf(pairs) ==
    DictV([i \in 1..Len(pairs) |-> pairs[i].k], [i \in 1..Len(pairs) |-> pairs[i].v])

RECURSIVE Concat(_)
Concat(ss) == IF ss = <<>> THEN <<>> ELSE Head(ss) \o Concat(Tail(ss))

\* the flat bracket-keyed form of a contact at position i (from 0)
FlatContact(c, i) ==
    LET at == <<<<"contacts">>, FormatNat(i)>>
    IN <<Pair(BracketKey(Append(at, <<"_type">>)), Str(TypeOf(c))),
         Pair(BracketKey(Append(at, <<"name">>)), Str(c.name))>>
       \o (IF c.cls = "Friend"
           THEN <<Pair(BracketKey(Append(at, <<"known_since">>)),
                       Str(FormatDatetime(c.known_since)))>>
           ELSE <<>>)
       \o (IF c.cls = "FamilyMember"
           THEN <<Pair(BracketKey(Append(at, <<"relationship">>)), Str(c.relationship))>>
           ELSE <<>>)

\* the flat bracket-keyed form of a Person: one key per scalar leaf, every
\* value as text, sequence positions as index segments in ascending order
FlatForm(p) ==
    FormOf(<<Pair(BracketKey(<<<<"name">>>>), Str(p.name)),
             Pair(BracketKey(<<<<"age">>>>), Str(FormatNat(p.age))),
             Pair(BracketKey(<<<<"job">>>>), Str(p.job))>>
           \o (IF p.address.present
               THEN <<Pair(BracketKey(<<<<"address">>, <<"house_number">>>>),
                           Str(FormatInt(p.address.house_number))),
                      Pair(BracketKey(<<<<"address">>, <<"street">>>>), Str(p.address.street)),
                      Pair(BracketKey(<<<<"address">>, <<"city">>>>), Str(p.address.city))>>
               ELSE <<>>)
           \o [i \in 1..Len(p.hobbies) |->
                  Pair(BracketKey(<<<<"hobbies">>, FormatNat(i - 1)>>), Str(p.hobbies[i]))]
           \o Concat([i \in 1..Len(p.contacts) |-> FlatContact(p.contacts[i], i - 1)]))

\* ------------------------------------------------------------------ inputs
SeqsUpTo(S, n) == UNION {[1..m -> S] : m \in 0..n}

\* typed values a caller may hold
SampleContacts ==
    {ContactV("Contact", <<"Carol">>, 0, <<>>),
     ContactV("Friend", <<"Alice">>, 5, <<>>),
     ContactV("FamilyMember", <<"Bob">>, 0, <<"Father">>)}
SampleAddress == Address(123, <<"Main St">>, <<"New York">>)
\* age, job and address of the sample persons: each field at two values
SampleHeads ==
    {[age |-> 30, job |-> DefaultJob, address |-> SampleAddress],
     [age |-> 0, job |-> <<"UX">>, address |-> NoAddress]}
Persons ==
    {Person(<<"John Doe">>, x.age, x.job, x.address, h, c) :
        x \in SampleHeads,
        h \in SeqsUpTo({<<"Walking">>, <<"Reading">>}, MaxHobbies),
        c \in SeqsUpTo(SampleContacts, MaxContacts)}

\* key/value pairs a form may carry besides its header, by the field they
\* are about
HobbyCandidates ==
    {Pair(BracketKey(<<<<"hobbies">>, <<"0">>>>), Str(<<"Walking">>)),
     Pair(BracketKey(<<<<"hobbies">>, <<"1">>>>), Str(<<"Reading">>)),
     Pair(<<"hobbies">>, ListV(<<>>)),
     Pair(BracketKey(<<<<"hobbies">>, <<"first">>>>), Str(<<"Chess">>)),
     Pair(BracketKey(<<<<"hobbies">>, <<"first">>, <<"name">>>>), Str(<<"Chess">>)),
     Pair(BracketKey(<<<<"hobbies">>, <<"0">>, <<"0">>, <<"0">>>>), Str(<<"Chess">>))}
AddressCandidates ==
    {Pair(BracketKey(<<<<"address">>>>), Str(<<"foo">>)),
     Pair(BracketKey(<<<<"address">>, <<"street">>>>), Str(<<"Main">>)),
     Pair(BracketKey(<<<<"address">>, <<"0">>>>), Str(<<"x">>)),
     Pair(<<"root", "[", "]">>, Str(<<"x">>)),
     Pair(<<"root", "[", "city", "]", "]">>, Str(<<"x">>)),
     Pair(<<"root", "[", "city", "]", "[">>, Str(<<"x">>))}
ContactCandidates ==
    {Pair(BracketKey(<<<<"contacts">>, <<"0">>, <<"_type">>>>), Str(<<"FamilyMember">>)),
     Pair(BracketKey(<<<<"contacts">>, <<"0">>, <<"_type">>>>), Str(<<"Unknown">>)),
     Pair(BracketKey(<<<<"contacts">>, <<"0">>, <<"name">>>>), Str(<<"Bob">>)),
     Pair(BracketKey(<<<<"contacts">>, <<"0">>, <<"relationship">>>>), Str(<<"Father">>))}
\* plain keys: an empty object, a list holding one, a name made of a digit
PlainCandidates ==
    {Pair(<<"address">>, DictV(<<>>, <<>>)),
     Pair(<<"hobbies">>, ListV(<<DictV(<<>>, <<>>)>>)),
     Pair(<<"0">>, Str(<<"x">>))}
CandidateFamilies == {HobbyCandidates, AddressCandidates, ContactCandidates, PlainCandidates}
Candidates == UNION CandidateFamilies

\* no key twice: a form is a mapping
DistinctKeys(ps) == \A i, j \in 1..Len(ps) : ps[i].k = ps[j].k => i = j

\* the fields every form starts with: none, or name and age, or name, age
\* and job, as the editor names them
Headers ==
    {<<>>,
     <<Pair(BracketKey(<<<<"name">>>>), Str(<<"Foo Bar">>)),
       Pair(BracketKey(<<<<"age">>>>), Str(<<"2", "1">>))>>,
     <<Pair(BracketKey(<<<<"name">>>>), Str(<<"Foo Bar">>)),
       Pair(BracketKey(<<<<"age">>>>), Str(<<"2", "1">>)),
       Pair(BracketKey(<<<<"job">>>>), Str(<<"Sales">>))>>}

\* a form: a header, then up to MaxKeys pairs about one field
Forms ==
    {FormOf(h \o e) : h \in Headers,
                      e \in UNION {{x \in SeqsUpTo(F, MaxKeys) : DistinctKeys(x)} :
                                      F \in CandidateFamilies}}

\* a request body that is not a mapping
Documents == {ListV(<<>>)}

\* ------------------------------------------------------------------- state
VARIABLES
    person,   \* the typed value the caller holds, if any
    source,   \* how data was made: "form", "json" (model_dump_json), "flat"
    stage,    \* the Person class that validates: 0 (0_the_problem) or 4
    data,     \* the input of the validation
    pos,      \* number of items of data the loop has inserted
    out,      \* the tree json_editor_parse builds
    pc,       \* "idle", "received", "parsed", "validated", "raised"
    err,      \* the exception raised, "" when none
    done,     \* the value the before-validator returned
    report,   \* the outcome of the validation: errors, or the typed value
    models,   \* app.models: the stored persons
    request,  \* the request the app handled last
    response, \* the response to it
    contact,  \* a typed contact a caller holds
    tagOp,    \* the last access to its attribute _type and the outcome
    exported  \* the JSON schema of the contact classes, once exported

decoderVars == <<person, source, stage, data, pos, out, pc, err, done, report>>
appVars == <<models, request, response>>
tagVars == <<contact, tagOp, exported>>
vars == <<decoderVars, appVars, tagVars>>

NoReport == [errs |-> {}, val |-> BlankPerson]

\* no request has been handled
NoRequest == [op |-> "none", index |-> 0, form |-> NoneV]
NoResponse == [status |-> 0, page |-> "none", model |-> BlankPerson, index |-> 0, people |-> <<>>]
AppIdle == models = <<>> /\ request = NoRequest /\ response = NoResponse

\* no attribute has been accessed, no schema exported
NoTagOp == [op |-> "none", arg |-> <<>>, result |-> <<>>, exc |-> ""]
TagIdle ==
    /\ contact = ContactV("Contact", <<"Carol">>, 0, <<>>)
    /\ tagOp = NoTagOp
    /\ exported = <<>>

\* no validation has started
DecoderIdle ==
    /\ source = "none"
    /\ stage = 4
    /\ data = NoneV
    /\ pos = 0
    /\ out = NestedDict
    /\ pc = "idle"
    /\ err = ""
    /\ done = NoneV
    /\ report = NoReport

Init ==
    /\ person \in {[some |-> FALSE, value |-> BlankPerson]}
                     \cup {[some |-> TRUE, value |-> p] : p \in Persons}
    /\ DecoderIdle
    /\ AppIdle
    /\ TagIdle

\* a request arrives with a body for the Person class of stage st
Submit(body, st) ==
    /\ pc = "idle"
    /\ ~person.some
    /\ data' = body
    /\ stage' = st
    /\ source' = "form"
    /\ pc' = "received"
    /\ UNCHANGED <<person, pos, out, err, done, report>>
    /\ UNCHANGED <<appVars, tagVars>>

\* data = person.model_dump_json(), for Person.model_validate_json(data)
DumpJson ==
    /\ pc = "idle"
    /\ person.some
    /\ data' = ModelDumpJson(person.value)
    /\ source' = "json"
    /\ pc' = "received"
    /\ UNCHANGED <<person, stage, pos, out, err, done, report>>
    /\ UNCHANGED <<appVars, tagVars>>

\* the person is written as a flat bracket-keyed form
WriteFlat ==
    /\ pc = "idle"
    /\ person.some
    /\ data' = FlatForm(person.value)
    /\ source' = "flat"
    /\ pc' = "received"
    /\ UNCHANGED <<person, stage, pos, out, err, done, report>>
    /\ UNCHANGED <<appVars, tagVars>>

\* p is a prefix of q
IsPrefix(p, q) == Len(p) <= Len(q) /\ SubSeq(q, 1, Len(p)) = p

\* out[k] = v and parent[leaf] = v store the object v itself, not a copy:
\* a list or dict of the input that the tree holds is the same object in
\* both, and what the walk appends to it is seen through the input.  Shared
\* is the input d when the first n items are stored and the tree is tree:
\* an item still in the tree (no later key stored at its path or above it)
\* is what the tree holds at its path.
Shared(d, n, tree) ==
    [d EXCEPT !.items =
        [j \in 1..Len(d.items) |->
            IF /\ j <= n
               /\ (IsList(d.items[j]) \/ IsDict(d.items[j]))
               /\ ~\E j2 \in (j + 1)..n :
                      IsPrefix(Segments(d.keys[j2]), Segments(d.keys[j]))
               /\ NodeAt(tree, Segments(d.keys[j])).found
            THEN NodeAt(tree, Segments(d.keys[j])).node
            ELSE d.items[j]]]

\* json_editor_parse, one iteration of the loop over data.items(); a
\* ValueError raised in a before-validator becomes the validation error
\* value_error, any other exception leaves the validation; the lists of
\* the input that the tree holds change with the tree
Insert ==
    /\ pc = "received"
    /\ stage = 4
    /\ IsDict(data)
    /\ pos < Len(data.keys)
    /\ LET r == InsertKey(out, data.keys[pos + 1], data.items[pos + 1])
       IN /\ out' = r.node
          /\ err' = r.err
          /\ pos' = IF r.err = "" THEN pos + 1 ELSE pos
          /\ pc' = IF r.err = "" THEN "received"
                   ELSE IF r.err = "ValueError" THEN "validated" ELSE "raised"
          /\ report' = IF r.err = "ValueError"
                       THEN [errs |-> {Err(<<>>, "value_error")}, val |-> BlankPerson]
                       ELSE report
          /\ data' = Shared(data, IF r.err = "" THEN pos + 1 ELSE pos, r.node)
    /\ UNCHANGED <<person, source, stage, done>>
    /\ UNCHANGED <<appVars, tagVars>>

\* json_editor_parse, after the loop: return indexed_dicts_to_lists(out)
Finish ==
    /\ pc = "received"
    /\ stage = 4
    /\ IsDict(data)
    /\ pos = Len(data.keys)
    /\ done' = indexed_dicts_to_lists(out)
    /\ pc' = "parsed"
    /\ UNCHANGED <<person, source, stage, data, pos, out, err, report>>
    /\ UNCHANGED <<appVars, tagVars>>

\* json_editor_parse on data that is not a dict: return data
PassThrough ==
    /\ pc = "received"
    /\ stage = 4
    /\ ~IsDict(data)
    /\ done' = data
    /\ pc' = "parsed"
    /\ UNCHANGED <<person, source, stage, data, pos, out, err, report>>
    /\ UNCHANGED <<appVars, tagVars>>

\* the fields of Person are validated against what the before-validator
\* returned
Validate ==
    /\ pc = "parsed"
    /\ report' = ValidatePerson(done)
    /\ pc' = "validated"
    /\ UNCHANGED <<person, source, stage, data, pos, out, err, done>>
    /\ UNCHANGED <<appVars, tagVars>>

\* stage 0: the fields of Person are validated against the input itself
Validate0 ==
    /\ pc = "received"
    /\ stage = 0
    /\ done' = data
    /\ report' = ValidatePerson0(data)
    /\ pc' = "validated"
    /\ UNCHANGED <<person, source, stage, data, pos, out, err>>
    /\ UNCHANGED <<appVars, tagVars>>

Next ==
    \/ /\ pc = "idle"
       /\ \E body \in Forms \cup Documents, st \in {0, 4} : Submit(body, st)
    \/ DumpJson
    \/ WriteFlat
    \/ Insert
    \/ Finish
    \/ PassThrough
    \/ Validate
    \/ Validate0

Spec == Init /\ [][Next]_vars

\* ------------------------------------------------------- the whole decode
\* the loop of json_editor_parse over the items of d from position i
RECURSIVE InsertAll(_, _, _)
InsertAll(tree, d, i) ==
    IF i > Len(d.keys) THEN Result("", tree)
    ELSE LET r == InsertKey(tree, d.keys[i], d.items[i])
         IN IF r.err # "" THEN r ELSE InsertAll(r.node, d, i + 1)

\* Person.json_editor_parse as one function of its input
json_editor_parse(d) ==
    IF IsDict(d)
    THEN LET r == InsertAll(NestedDict, d, 1)
         IN IF r.err = "" THEN Result("", indexed_dicts_to_lists(r.node))
            ELSE Result(r.err, NoneV)
    ELSE Result("", d)

\* Person.model_validate as one function of its input: the exception, the
\* tree handed to the field validation, and the report
model_validate(d) ==
    LET r == json_editor_parse(d)
    IN [err |-> r.err,
        done |-> r.node,
        report |-> IF r.err = "" THEN ValidatePerson(r.node)
                   ELSE IF r.err = "ValueError"
                        THEN [errs |-> {Err(<<>>, "value_error")}, val |-> BlankPerson]
                        ELSE NoReport]

\* ------------------------------------------------------ reading the input
\* positions of the items of d whose key addresses the top-level field f
Addressing(d, f) == {i \in 1..Len(d.keys) : Segments(d.keys[i])[1] = f}

\* the item at position i of d is root[f][n] for a digit string n
IsIndexItem(d, i, f) ==
    /\ IsStructured(d.keys[i])
    /\ Len(Segments(d.keys[i])) = 2
    /\ Segments(d.keys[i])[1] = f
    /\ IsDigit(Segments(d.keys[i])[2])
IndexOf(d, i) == ParseInt(Segments(d.keys[i])[2])

\* the top-level field f of a decoded tree, None when absent
FieldOf(tree, f) == IF IsDict(tree) /\ HasKey(tree, f) THEN GetItem(tree, f) ELSE NoneV

\* the decode of a form by stage 4 has returned its tree
Decoded == pc \in {"parsed", "validated"} /\ stage = 4 /\ source = "form" /\ IsDict(data)

\* ------------------------------------------------------------------ claims
\* C1: when hobbies is addressed only by index keys root[hobbies][0..n-1],
\* submitted in any order, the decoded sequence holds at position i the
\* value submitted under index i (ascending index order, not arrival order).
C1_ArrayReconstruction ==
    LET hs == Addressing(data, <<"hobbies">>)
    IN (/\ Decoded
        /\ hs # {}
        /\ \A i \in hs : IsIndexItem(data, i, <<"hobbies">>)
        /\ {IndexOf(data, i) : i \in hs} = 0..(Cardinality(hs) - 1))
       => /\ IsList(FieldOf(done, <<"hobbies">>))
          /\ Len(FieldOf(done, <<"hobbies">>).items) = Cardinality(hs)
          /\ \A i \in hs :
                FieldOf(done, <<"hobbies">>).items[IndexOf(data, i) + 1] = data.items[i]

\* the items of d in the order q (a permutation of the positions)
Permuted(d, q) ==
    DictV([i \in 1..Len(d.keys) |-> d.keys[q[i]]], [i \in 1..Len(d.items) |-> d.items[q[i]]])

\* C2: decoding a form with its key/value pairs permuted into any order
\* gives the same normalized tree and the same outcome (typed value or
\* error) as decoding the form as submitted.
C2_OrderIndependence ==
    (pc \in {"validated", "raised"} /\ stage = 4 /\ source = "form" /\ IsDict(data))
    => \A q \in Permutations(1..Len(data.keys)) :
          model_validate(Permuted(data, q)) = [err |-> err, done |-> done, report |-> report]

\* C3: when hobbies is addressed by the single key root[hobbies][i], i > 0,
\* the decoded sequence has length i + 1, holds the empty string below i and
\* the submitted value at i.
C3_GapTolerance ==
    LET hs == Addressing(data, <<"hobbies">>)
    IN (/\ Decoded
        /\ Cardinality(hs) = 1
        /\ \A i \in hs : IsIndexItem(data, i, <<"hobbies">>) /\ IndexOf(data, i) > 0)
       => \A i \in hs :
             LET h == FieldOf(done, <<"hobbies">>)
             IN /\ IsList(h)
                /\ Len(h.items) = IndexOf(data, i) + 1
                /\ \A j \in 1..IndexOf(data, i) : h.items[j] = Str(<<>>)
                /\ h.items[IndexOf(data, i) + 1] = data.items[i]

\* C4: the document p.model_dump_json() validates (through
\* json_editor_parse and indexed_dicts_to_lists) to a value equal to p,
\* every contact keeping its class.
C4_JsonRoundTrip ==
    (pc = "validated" /\ source = "json")
    => /\ report.errs = {}
       /\ report.val = person.value
       /\ \A i \in 1..Len(person.value.contacts) :
             report.val.contacts[i].cls = person.value.contacts[i].cls

C4_Witness ==
    /\ pc = "validated" /\ source = "json"
    /\ report.val = person.value
    /\ person.value.address.present
    /\ Len(person.value.hobbies) = 2
    /\ \E i, j \in 1..Len(person.value.contacts) :
          /\ person.value.contacts[i].cls = "Friend"
          /\ person.value.contacts[j].cls = "FamilyMember"

Validated == pc = "validated" /\ stage = 4 /\ err = ""

\* the element trees of the field contacts of a decoded tree
ContactTrees(tree) ==
    IF IsList(FieldOf(tree, <<"contacts">>)) THEN FieldOf(tree, <<"contacts">>).items ELSE <<>>

\* location of element i (from 1) of the field contacts
ContactLoc(i) == <<<<"contacts">>, FormatNat(i - 1)>>

\* e carries the name of a declared class in _type
HasDeclaredTag(e) ==
    /\ IsDict(e)
    /\ HasKey(e, <<"_type">>)
    /\ GetItem(e, <<"_type">>).kind = "str"
    /\ \E i \in 1..Len(get_subclasses) : GetItem(e, <<"_type">>).val = <<get_subclasses[i]>>
TagOf(e) == GetItem(e, <<"_type">>).val[1]

\* the remaining fields of e satisfy the schema of the class its tag names
FitsVariant(e) ==
    /\ HasKey(e, <<"name">>) /\ GetItem(e, <<"name">>).kind = "str"
    /\ TagOf(e) = "Friend" =>
          /\ HasKey(e, <<"known_since">>)
          /\ GetItem(e, <<"known_since">>).kind = "str"
          /\ IsDatetimeText(GetItem(e, <<"known_since">>).val)
    /\ TagOf(e) = "FamilyMember" =>
          /\ HasKey(e, <<"relationship">>)
          /\ GetItem(e, <<"relationship">>).kind = "str"

\* the typed contact that e describes
Described(e) ==
    ContactV(TagOf(e), GetItem(e, <<"name">>).val,
             IF TagOf(e) = "Friend" THEN ParseDatetime(GetItem(e, <<"known_since">>).val) ELSE 0,
             IF TagOf(e) = "FamilyMember" THEN GetItem(e, <<"relationship">>).val ELSE <<>>)

\* loc lies at or below the location at
Under(loc, at) == Len(loc) >= Len(at) /\ SubSeq(loc, 1, Len(at)) = at

\* C6: an element tree of contacts whose _type names a declared class and
\* whose other fields satisfy that class validates without error as a value
\* of exactly that class holding those fields.
C6_UnionDispatch ==
    Validated =>
        \A i \in 1..Len(ContactTrees(done)) :
            LET e == ContactTrees(done)[i]
            IN (HasDeclaredTag(e) /\ FitsVariant(e))
               => /\ \A x \in report.errs : ~Under(x.loc, ContactLoc(i))
                  /\ report.errs = {} =>
                        /\ report.val.contacts[i] = Described(e)
                        /\ report.val.contacts[i].cls = TagOf(e)

C6_Witness ==
    /\ Validated /\ source = "form"
    /\ report.errs = {}
    /\ Len(ContactTrees(done)) = 1
    /\ HasDeclaredTag(ContactTrees(done)[1])
    /\ report.val.contacts = <<ContactV("FamilyMember", <<"Bob">>, 0, <<"Father">>)>>

\* C7: a contacts element is never accepted without a valid tag: without a
\* _type key the report holds a tag-not-found error at the element, with a
\* _type that names no declared class a tag-invalid error at the element,
\* and no typed value is returned.
C7_TagRequired ==
    Validated =>
        \A i \in 1..Len(ContactTrees(done)) :
            LET e == ContactTrees(done)[i]
            IN /\ (~IsDict(e) \/ ~HasKey(e, <<"_type">>))
                  => /\ Err(ContactLoc(i), "union_tag_not_found") \in report.errs
                     /\ report.val = BlankPerson
               /\ (IsDict(e) /\ HasKey(e, <<"_type">>) /\ ~HasDeclaredTag(e)
                      /\ GetItem(e, <<"_type">>).kind # "none")
                  => /\ Err(ContactLoc(i), "union_tag_invalid") \in report.errs
                     /\ report.val = BlankPerson

C7_Witness ==
    /\ Validated /\ source = "form"
    /\ Len(ContactTrees(done)) = 1
    /\ HasKey(ContactTrees(done)[1], <<"_type">>)
    /\ GetItem(ContactTrees(done)[1], <<"_type">>) = Str(<<"Unknown">>)
    /\ Err(ContactLoc(1), "union_tag_invalid") \in report.errs
    /\ report.val = BlankPerson

\* the fields of a class that have no default
RequiredOfPerson == {<<"name">>, <<"age">>}
RequiredOfAddress == {<<"house_number">>, <<"street">>, <<"city">>}

\* C8: every required field without default that the input lacks has its
\* own missing error in the one report (the first does not hide the
\* others), and no typed value is produced.
C8_AllMissingReported ==
    (pc = "validated" /\ err = "" /\ IsDict(done)) =>
        /\ \A f \in RequiredOfPerson :
              ~HasKey(done, f) => /\ Err(<<f>>, "missing") \in report.errs
                                  /\ report.val = BlankPerson
        /\ (stage = 4 /\ IsDict(FieldOf(done, <<"address">>))) =>
              \A f \in RequiredOfAddress :
                  ~HasKey(FieldOf(done, <<"address">>), f)
                  => /\ Err(<<<<"address">>, f>>, "missing") \in report.errs
                     /\ report.val = BlankPerson

C8_Witness ==
    /\ pc = "validated" /\ stage = 0 /\ source = "form"
    /\ HasKey(data, BracketKey(<<<<"name">>>>))
    /\ \A f \in RequiredOfPerson : ~HasKey(done, f) /\ Err(<<f>>, "missing") \in report.errs
    /\ report.val = BlankPerson

\* a scalar value
IsScalar(x) == ~IsDict(x) /\ ~IsList(x)

\* the key k descends through a path at which tree holds a scalar
DescendsThroughScalar(tree, k) ==
    /\ IsStructured(k)
    /\ \E m \in 1..(Len(Segments(k)) - 1) :
          LET at == NodeAt(tree, SubSeq(Segments(k), 1, m))
          IN at.found /\ IsScalar(at.node)

\* C9: when a scalar has been inserted at a path (root[address]=foo) and a
\* later key descends through that path (root[address][street]=Main), the
\* decode fails at that key with the exception of the path conflict
\* (TypeError); no tree and no typed value is produced.
C9_ScalarThenDescend ==
    [][(/\ pc = "received" /\ stage = 4 /\ IsDict(data)
        /\ pos < Len(data.keys)
        /\ DescendsThroughScalar(out, data.keys[pos + 1]))
       => (/\ pc' = "raised"
           /\ err' = "TypeError"
           /\ done' = NoneV
           /\ report' = NoReport)]_vars

C9_Witness ==
    /\ pc = "raised" /\ err = "TypeError"
    /\ HasKey(data, BracketKey(<<<<"address">>>>))
    /\ data.keys[pos + 1] = BracketKey(<<<<"address">>, <<"street">>>>)
    /\ DescendsThroughScalar(out, data.keys[pos + 1])
    /\ done = NoneV /\ report = NoReport

\* kind of a node: object, array or scalar
KindOf(x) == IF IsDict(x) THEN "object" ELSE IF IsList(x) THEN "array" ELSE "scalar"

\* the paths of the nodes of a tree below its root
RECURSIVE Paths(_)
Paths(n) ==
    IF IsDict(n)
    THEN UNION {{<<n.keys[i]>>} \cup {<<n.keys[i]>> \o p : p \in Paths(n.items[i])} :
                   i \in 1..Len(n.keys)}
    ELSE IF IsList(n)
         THEN UNION {{<<FormatNat(i - 1)>>}
                        \cup {<<FormatNat(i - 1)>> \o p : p \in Paths(n.items[i])} :
                        i \in 1..Len(n.items)}
         ELSE {}

\* C10: over the insertions of one decode, a node that is an object, an
\* array or a scalar keeps that kind: no later insertion replaces a
\* container by a scalar or a scalar by a container.
C10_KindNeverChanges ==
    [][(pc = "received" /\ stage = 4 /\ pc' = "received")
       => \A p \in Paths(out) :
             /\ NodeAt(out', p).found
             /\ KindOf(NodeAt(out', p).node) = KindOf(NodeAt(out, p).node)]_vars

\* the insertion of the next item of data is about to run
AboutToInsert == pc = "received" /\ stage = 4 /\ IsDict(data) /\ pos < Len(data.keys)
\* the key of that item
NextKey == data.keys[pos + 1]

IsBracket(t) == t \in {"[", "]"}

\* root[s1]...[sn], n >= 1, every segment non-empty and free of brackets
WellFormedKey(k) ==
    /\ Len(k) >= 4
    /\ k[1] = "root" /\ k[2] = "[" /\ k[Len(k)] = "]"
    /\ \A i \in 2..(Len(k) - 1) :
          /\ k[i] = "[" => ~IsBracket(k[i + 1])
          /\ k[i] = "]" => k[i + 1] = "["
          /\ ~IsBracket(k[i]) => k[i + 1] # "["

\* a key that opens as a structured key but has unbalanced brackets or an
\* empty segment
IsMalformed(k) == Len(k) >= 2 /\ k[1] = "root" /\ k[2] = "[" /\ ~WellFormedKey(k)

\* C11: a structured key with unbalanced brackets (root[a][, root[a]]) or an
\* empty segment (root[], root[a][]) makes the decode fail at that key with
\* an error; the key is not stored in the tree.
C11_MalformedKeyRejected ==
    [][(AboutToInsert /\ IsMalformed(NextKey))
       => (err' # "" /\ pc' \in {"raised", "validated"})]_vars

\* the key k has a segment, not a digit string, that addresses a node of
\* tree that is a list
WordOnList(tree, k) ==
    /\ IsStructured(k)
    /\ \E m \in 1..Len(Segments(k)) :
          LET at == NodeAt(tree, SubSeq(Segments(k), 1, m - 1))
          IN at.found /\ IsList(at.node) /\ ~IsDigit(Segments(k)[m])

\* C12: a key with a non-numeric segment addressing a node that is already
\* a list, as an intermediate or as the final segment, makes the decode fail
\* with the ValueError "List index must be a number": the validation reports
\* it and no tree and no typed value is produced.
C12_WordOnListFails ==
    [][(AboutToInsert /\ WordOnList(out, NextKey))
       => (/\ err' = "ValueError"
           /\ pc' = "validated"
           /\ done' = NoneV
           /\ report'.errs = {Err(<<>>, "value_error")}
           /\ report'.val = BlankPerson)]_vars

C12_Witness ==
    /\ pc = "validated" /\ stage = 4 /\ err = "ValueError"
    /\ pos < Len(data.keys)
    /\ NextKey = BracketKey(<<<<"hobbies">>, <<"first">>, <<"name">>>>)
    /\ IsList(FieldOf(out, <<"hobbies">>))
    /\ WordOnList(out, NextKey)
    /\ report.errs = {Err(<<>>, "value_error")} /\ report.val = BlankPerson

\* the key k has a digit-string segment that addresses a node of tree that
\* is an object holding a key that is not a digit string
IndexOnObject(tree, k) ==
    /\ IsStructured(k)
    /\ \E m \in 1..Len(Segments(k)) :
          LET at == NodeAt(tree, SubSeq(Segments(k), 1, m - 1))
          IN /\ at.found /\ IsDict(at.node)
             /\ \E j \in 1..Len(at.node.keys) : ~IsDigit(at.node.keys[j])
             /\ IsDigit(Segments(k)[m])

\* C13: a key with a numeric segment addressing a node that non-numeric
\* segments have already made an object (root[address][street]=Main, then
\* root[address][0]=x) makes the decode fail at that key; no object with
\* mixed keys is produced.
C13_IndexOnObjectFails ==
    [][(AboutToInsert /\ IndexOnObject(out, NextKey))
       => (err' # "" /\ pc' \in {"raised", "validated"})]_vars

\* a non-empty object whose keys are all digit strings
IsIndexedDict(n) == IsDict(n) /\ n.keys # <<>> /\ AllDigitKeys(n)

\* indexed_dicts_to_lists has returned the tree done
Normalized == pc \in {"parsed", "validated"} /\ stage = 4 /\ err = "" /\ IsDict(data)

\* C14: in the tree indexed_dicts_to_lists returns, no node at any depth
\* (the root, inside objects, inside lists, inside lists nested in lists) is
\* a non-empty object whose keys are all digit strings.
C14_NoIndexedDictLeft ==
    Normalized =>
        \A p \in {<<>>} \cup Paths(done) : ~IsIndexedDict(NodeAt(done, p).node)

\* the path of the node under which the key k stores, and its last segment
ParentPath(k) == SubSeq(Segments(k), 1, Len(Segments(k)) - 1)
LeafOf(k) == Segments(k)[Len(Segments(k))]

\* the last segment of k is an index into a node of tree that is a list
IndexOnList(tree, k) ==
    /\ IsStructured(k)
    /\ NodeAt(tree, ParentPath(k)).found
    /\ IsList(NodeAt(tree, ParentPath(k)).node)
    /\ IsDigit(LeafOf(k))

Max(a, b) == IF a >= b THEN a ELSE b

\* C15: when the final segment of a key is the index i into an existing
\* list of length n, the insertion succeeds and the list then has length
\* max(n, i + 1), holds the value at position i, holds the empty value of
\* the value's type at every new position below i, and keeps its other
\* elements.
C15_ListPadding ==
    [][(AboutToInsert /\ IndexOnList(out, NextKey))
       => LET old == NodeAt(out, ParentPath(NextKey)).node.items
              new == NodeAt(out', ParentPath(NextKey)).node
              i == ParseInt(LeafOf(NextKey))
              v == data.items[pos + 1]
          IN /\ err' = "" /\ pc' = "received" /\ pos' = pos + 1
             /\ IsList(new)
             /\ Len(new.items) = Max(Len(old), i + 1)
             /\ new.items[i + 1] = v
             /\ \A j \in (Len(old) + 1)..i : new.items[j] = TypeDefault(v)
             /\ \A j \in 1..Len(old) : j # i + 1 => new.items[j] = old[j]]_vars

C15_Witness ==
    /\ pc = "received" /\ stage = 4 /\ pos >= 3
    /\ HasKey(data, <<"hobbies">>)
    /\ data.keys[pos - 1] = BracketKey(<<<<"hobbies">>, <<"1">>>>)
    /\ data.keys[pos] = BracketKey(<<<<"hobbies">>, <<"0">>>>)
    /\ FieldOf(out, <<"hobbies">>) = ListV(<<Str(<<"Walking">>), Str(<<"Reading">>)>>)

\* the fields of Person that have a default
DefaultedOfPerson == {<<"job">>, <<"address">>, <<"hobbies">>, <<"contacts">>}

\* the value report holds for the defaulted field f is the declared default
HoldsDefault(p, f) ==
    CASE f = <<"job">> -> p.job = DefaultJob
      [] f = <<"address">> -> p.address = DefaultAddress
      [] f = <<"hobbies">> -> p.hobbies = DefaultHobbies
      [] f = <<"contacts">> -> p.contacts = DefaultContacts

\* C16: a field with a default (job, address, hobbies, contacts) that no
\* key of the input addresses causes no validation error and, when the
\* validation yields a Person, holds exactly its default ("Developer", None,
\* [], []), whatever other keys the input has.
C16_DefaultsApplied ==
    (pc = "validated" /\ stage = 4 /\ err = "" /\ IsDict(data)) =>
        \A f \in DefaultedOfPerson :
            Addressing(data, f) = {} =>
                /\ \A e \in report.errs : e.loc = <<>> \/ e.loc[1] # f
                /\ report.errs = {} => HoldsDefault(report.val, f)

C16_Witness ==
    /\ pc = "validated" /\ stage = 4 /\ source = "form" /\ report.errs = {}
    /\ Addressing(data, <<"job">>) = {} /\ report.val.job = DefaultJob
    /\ Addressing(data, <<"address">>) = {} /\ report.val.address = DefaultAddress
    /\ Addressing(data, <<"contacts">>) = {} /\ report.val.contacts = DefaultContacts
    /\ Addressing(data, <<"hobbies">>) # {} /\ report.val.hobbies # DefaultHobbies

\* C19: a decode never mutates its input: from the moment the input is
\* handed to the validation, through every insertion of json_editor_parse
\* and whether it returns or raises, the input mapping and every value
\* reachable from it stay as they were.
C19_InputUnchanged ==
    [][pc # "idle" => data' = data]_vars

\* ------------------------------------------- stage 2_nested_model: decoder
\* the while loop and the final store of stage 2: every parent is
\* subscripted by the segment as it is, a list is not walked by index
RECURSIVE Walk2(_, _, _, _)
Walk2(parent, sub_ks, leaf, v) ==
    IF sub_ks = <<>>
    THEN IF IsDict(parent) THEN Result("", SetItem(parent, leaf, v))
         ELSE Result("TypeError", parent)
    ELSE IF IsDict(parent)
         THEN IF HasKey(parent, Head(sub_ks))
              THEN LET r == Walk2(GetItem(parent, Head(sub_ks)), Tail(sub_ks), leaf, v)
                   IN Result(r.err, SetItem(parent, Head(sub_ks), r.node))
              ELSE IF parent.kind = "NestedDict"
                   THEN LET r == Walk2(NestedDict, Tail(sub_ks), leaf, v)
                        IN Result(r.err, SetItem(parent, Head(sub_ks), r.node))
                   ELSE Result("KeyError", parent)
         ELSE Result("TypeError", parent)

\* the loop body of a stage without bracket keys: every key is stored as
\* it is
InsertKey2_flat(tree, k, v) == Result("", SetItem(tree, k, v))

\* one iteration of the loop of stage 2
InsertKey2(tree, k, v) ==
    IF IsStructured(k)
    THEN LET segs == Split(StripRoot(k))
         IN Walk2(tree, SubSeq(segs, 1, Len(segs) - 1), segs[Len(segs)], v)
    ELSE Result("", SetItem(tree, k, v))

RECURSIVE InsertAll2(_, _, _)
InsertAll2(tree, d, i) ==
    IF i > Len(d.keys) THEN Result("", tree)
    ELSE LET r == InsertKey2(tree, d.keys[i], d.items[i])
         IN IF r.err # "" THEN r ELSE InsertAll2(r.node, d, i + 1)

\* Person.json_editor_parse of stage 2: the tree out itself is returned
json_editor_parse2(d) ==
    IF IsDict(d)
    THEN LET r == InsertAll2(NestedDict, d, 1)
         IN IF r.err = "" THEN r ELSE Result(r.err, NoneV)
    ELSE Result("", d)

\* class Person of stage 2: name, age, job and address (the fields a stage
\* lacks are held empty in the typed value)
ValidatePerson2(tree) ==
    IF ~IsDict(tree) THEN Invalid({Err(<<>>, "model_type")})
    ELSE LET E(name) == Entry(tree, <<name>>)
             n == Required(tree, <<"name">>, <<>>, ValidateStr(E("name"), <<<<"name">>>>))
             a == Required(tree, <<"age">>, <<>>,
                           ValidateNonNegativeInt(E("age"), <<<<"age">>>>))
             j == Defaulted(tree, <<"job">>, ValidateStr(E("job"), <<<<"job">>>>), DefaultJob)
             ad == Defaulted(tree, <<"address">>,
                             ValidateOptionalAddress(E("address"), <<<<"address">>>>),
                             DefaultAddress)
             es == n.errs \cup a.errs \cup j.errs \cup ad.errs
         IN IF es = {}
            THEN Valid(Person(n.val, a.val, j.val, ad.val, <<>>, <<>>))
            ELSE [errs |-> es, val |-> BlankPerson]

\* Person.model_validate of stage 2 as one function of the form
model_validate2(d) ==
    LET r == json_editor_parse2(d)
    IN [err |-> r.err,
        report |-> IF r.err = "" THEN ValidatePerson2(r.node) ELSE NoReport]

\* ------------------------------------------------ stage 2_nested_model: app
\* xs[i] of a Python list raises IndexError
IndexError(xs, i) == i >= Len(xs) \/ i < 0 - Len(xs)
\* every index addresses the last element
PyPos_last(xs, i) == Len(xs)

\* the position (from 1) xs[i] addresses: a negative i counts from the end
PyPos(xs, i) == IF i >= 0 THEN i + 1 ELSE Len(xs) + i + 1

\* the responses of the handlers
HomePage(ms) ==
    [status |-> 200, page |-> "People", model |-> BlankPerson, index |-> 0, people |-> ms]
EditPage(m, i) ==
    [status |-> 200, page |-> "Edit", model |-> m, index |-> i, people |-> <<>>]
NotFound ==
    [status |-> 404, page |-> "Not Found", model |-> BlankPerson, index |-> 0, people |-> <<>>]
\* the framework's answers to a form that does not validate and to an
\* exception that leaves the validation
Unprocessable ==
    [status |-> 422, page |-> "none", model |-> BlankPerson, index |-> 0, people |-> <<>>]
ServerError ==
    [status |-> 500, page |-> "none", model |-> BlankPerson, index |-> 0, people |-> <<>>]

\* the answer to a form the framework could not turn into a Person
Rejection(v) == IF v.err # "" THEN ServerError ELSE Unprocessable
Accepted(v) == v.err = "" /\ v.report.errs = {}

\* the dummy data of main()
DummyModels ==
    <<Person(<<"John Doe">>, 30, <<"UX">>, SampleAddress, <<>>, <<>>),
      Person(<<"Jane Smith">>, 25, <<"Designer">>,
             Address(4, <<"5th Ave">>, <<"San Francisco">>), <<>>, <<>>)>>

\* the forms a client posts
AppForms ==
    {FormOf(<<Pair(BracketKey(<<<<"name">>>>), Str(<<"Foo Bar">>)),
              Pair(BracketKey(<<<<"age">>>>), Str(<<"2", "1">>)),
              Pair(BracketKey(<<<<"job">>>>), Str(<<"Sales">>))>>),
     FormOf(<<Pair(BracketKey(<<<<"name">>>>), Str(<<"Ann">>)),
              Pair(BracketKey(<<<<"age">>>>), Str(<<"4", "0">>)),
              Pair(BracketKey(<<<<"address">>, <<"house_number">>>>), Str(<<"7">>)),
              Pair(BracketKey(<<<<"address">>, <<"street">>>>), Str(<<"Main">>)),
              Pair(BracketKey(<<<<"address">>, <<"city">>>>), Str(<<"Leeds">>))>>),
     FormOf(<<Pair(BracketKey(<<<<"name">>>>), Str(<<"Foo Bar">>))>>),
     FormOf(<<Pair(BracketKey(<<<<"address">>>>), Str(<<"foo">>)),
              Pair(BracketKey(<<<<"address">>, <<"street">>>>), Str(<<"Main">>))>>)}

\* the indexes a client asks for
Indexes == (0 - MaxModels - 1)..(MaxModels + 1)

\* GET /
people ==
    /\ request' = [op |-> "people", index |-> 0, form |-> NoneV]
    /\ response' = HomePage(models)
    /\ UNCHANGED <<models, decoderVars, tagVars>>

\* POST / storing the new person first in the list
create_person_prepend(form) ==
    /\ Len(models) < MaxModels
    /\ request' = [op |-> "create_person", index |-> 0, form |-> form]
    /\ LET v == model_validate2(form)
       IN IF Accepted(v)
          THEN /\ models' = <<v.report.val>> \o models
               /\ response' = HomePage(models')
          ELSE /\ models' = models
               /\ response' = Rejection(v)
    /\ UNCHANGED <<decoderVars, tagVars>>

\* POST / storing whatever the validation left of a rejected form
create_person_partial(form) ==
    /\ Len(models) < MaxModels
    /\ request' = [op |-> "create_person", index |-> 0, form |-> form]
    /\ LET v == model_validate2(form)
       IN /\ models' = Append(models, v.report.val)
          /\ response' = IF Accepted(v) THEN HomePage(models') ELSE Rejection(v)
    /\ UNCHANGED <<decoderVars, tagVars>>

\* POST /
create_person(form) ==
    /\ Len(models) < MaxModels
    /\ request' = [op |-> "create_person", index |-> 0, form |-> form]
    /\ LET v == model_validate2(form)
       IN IF Accepted(v)
          THEN /\ models' = Append(models, v.report.val)
               /\ response' = HomePage(models')
          ELSE /\ models' = models
               /\ response' = Rejection(v)
    /\ UNCHANGED <<decoderVars, tagVars>>

\* GET /{index}: the handler person (the name is taken by the variable)
person_page(index) ==
    /\ request' = [op |-> "person", index |-> index, form |-> NoneV]
    /\ response' = IF IndexError(models, index) THEN NotFound
                   ELSE EditPage(models[PyPos(models, index)], index)
    /\ UNCHANGED <<models, decoderVars, tagVars>>

\* POST /{index} storing the person at the end when the index addresses
\* no entry
update_person_upsert(index, form) ==
    /\ request' = [op |-> "update_person", index |-> index, form |-> form]
    /\ LET v == model_validate2(form)
       IN IF ~Accepted(v)
          THEN /\ models' = models
               /\ response' = Rejection(v)
          ELSE IF IndexError(models, index)
               THEN /\ models' = Append(models, v.report.val)
                    /\ response' = EditPage(v.report.val, index)
               ELSE /\ models' = [models EXCEPT ![PyPos(models, index)] = v.report.val]
                    /\ response' = EditPage(v.report.val, index)
    /\ UNCHANGED <<decoderVars, tagVars>>

\* POST /{index} dropping the entries after the one it replaces
update_person_truncate(index, form) ==
    /\ request' = [op |-> "update_person", index |-> index, form |-> form]
    /\ LET v == model_validate2(form)
       IN IF ~Accepted(v)
          THEN /\ models' = models
               /\ response' = Rejection(v)
          ELSE IF IndexError(models, index)
               THEN /\ models' = models
                    /\ response' = NotFound
               ELSE /\ models' = Append(SubSeq(models, 1, PyPos(models, index) - 1),
                                        v.report.val)
                    /\ response' = EditPage(v.report.val, index)
    /\ UNCHANGED <<decoderVars, tagVars>>

\* POST /{index}
update_person(index, form) ==
    /\ request' = [op |-> "update_person", index |-> index, form |-> form]
    /\ LET v == model_validate2(form)
       IN IF ~Accepted(v)
          THEN /\ models' = models
               /\ response' = Rejection(v)
          ELSE IF IndexError(models, index)
               THEN /\ models' = models
                    /\ response' = NotFound
               ELSE /\ models' = [models EXCEPT ![PyPos(models, index)] = v.report.val]
                    /\ response' = EditPage(v.report.val, index)
    /\ UNCHANGED <<decoderVars, tagVars>>

\* the app starts with the empty module-level list or with main()'s data
InitApp ==
    /\ person = [some |-> FALSE, value |-> BlankPerson]
    /\ DecoderIdle
    /\ TagIdle
    /\ models \in {<<>>, DummyModels}
    /\ request = NoRequest
    /\ response = NoResponse

NextApp ==
    \/ people
    \/ \E form \in AppForms : create_person(form)
    \/ \E index \in Indexes : person_page(index)
    \/ \E index \in Indexes, form \in AppForms : update_person(index, form)

SpecApp == InitApp /\ [][NextApp]_vars

\* C20: GET /{index} returns 200 with the edit page of the stored value
\* when index is one of 0..len(models)-1, and 404 "Not Found" for every
\* index at which models[index] addresses no stored value (index >=
\* len(models), index < -len(models)).
C20_GetByIndex ==
    request.op = "person" =>
        /\ request.index \in 0..(Len(models) - 1)
              => response = EditPage(models[request.index + 1], request.index)
        /\ (request.index >= Len(models) \/ request.index < 0 - Len(models))
              => response = NotFound

C20_Witness ==
    /\ request.op = "person"
    /\ Len(models) = 2
    /\ request.index = 2
    /\ response.status = 404 /\ response.page = "Not Found"

\* ------------------------------------------------ the attribute Contact._type
\* the property _type naming the base class in every schema
TypeProperty_base(cls) ==
    [enum |-> <<<<"Contact">>>>, default |-> <<"Contact">>, type |-> "string",
     title |-> "Type of contact"]

\* the property _type added to the JSON schema of class cls by
\* Contact.__get_pydantic_json_schema__, which every subclass inherits
TypeProperty(cls) ==
    [enum |-> <<<<cls>>>>, default |-> <<cls>>, type |-> "string", title |-> "Type of contact"]

\* the union Person.contacts in Person.model_json_schema(): one schema per
\* class of get_annotated_subclass_types, under its tag
ContactsJsonSchema ==
    [i \in 1..Len(get_subclasses) |->
        [tag |-> <<get_subclasses[i]>>,
         title |-> get_subclasses[i],
         type_property |-> TypeProperty(get_subclasses[i])]]

\* the setter accepts the value equal to the class name
SetType_acceptown(c, v) ==
    IF v # <<c.cls>>
    THEN [exc |-> "ValueError", msg |-> "Incorrectly loading", value |-> c]
    ELSE [exc |-> "", msg |-> "", value |-> c]

\* c._type = v: the setter raises on both of its paths; the outcome is the
\* exception, its message and the contact afterwards
SetType(c, v) ==
    IF v # <<c.cls>>
    THEN [exc |-> "ValueError", msg |-> "Incorrectly loading", value |-> c]
    ELSE [exc |-> "ValueError", msg |-> "Cannot set _type attribute directly", value |-> c]

\* typed contacts a caller may hold
TagContacts ==
    {ContactV("Contact", n, 0, <<>>) : n \in {<<"Carol">>, <<"Alice">>, <<"Bob">>}}
    \cup {ContactV("Friend", n, k, <<>>) : n \in {<<"Carol">>, <<"Alice">>, <<"Bob">>},
                                           k \in {0, 5}}
    \cup {ContactV("FamilyMember", n, 0, r) : n \in {<<"Carol">>, <<"Alice">>, <<"Bob">>},
                                              r \in {<<"Father">>, <<"Mother">>}}

\* values a caller may assign to _type
TagValues == get_annotated_subclass_types \cup {<<"Unknown">>, <<>>}

\* x = contact._type
ReadType ==
    /\ tagOp' = [op |-> "get", arg |-> <<>>, result |-> TypeOf(contact), exc |-> ""]
    /\ UNCHANGED <<contact, exported, decoderVars, appVars>>

\* contact._type = v
AssignType(v) ==
    /\ tagOp' = [op |-> "set", arg |-> v, result |-> <<>>, exc |-> SetType(contact, v).exc]
    /\ contact' = SetType(contact, v).value
    /\ UNCHANGED <<exported, decoderVars, appVars>>

\* Person.model_json_schema()
ExportSchema ==
    /\ exported = <<>>
    /\ exported' = ContactsJsonSchema
    /\ UNCHANGED <<contact, tagOp, decoderVars, appVars>>

InitTag ==
    /\ person = [some |-> FALSE, value |-> BlankPerson]
    /\ DecoderIdle
    /\ AppIdle
    /\ contact \in TagContacts
    /\ tagOp = NoTagOp
    /\ exported = <<>>

NextTag ==
    \/ ReadType
    \/ \E v \in TagValues : AssignType(v)
    \/ ExportSchema

SpecTag == InitTag /\ [][NextTag]_vars

\* a document that has the fields of every contact class and the tag t
FullContact(t) ==
    DictV(<<<<"name">>, <<"known_since">>, <<"relationship">>, <<"_type">>>>,
          <<Str(<<"Carol">>), Str(FormatDatetime(5)), Str(<<"Father">>), Str(t)>>)

\* C17: for every variant of the union (Contact and its subclasses) the
\* exported JSON schema's property _type enumerates exactly one value; that
\* value is the tag under which the validator dispatches to the variant and
\* the _type a value of the variant reports; the variants exported are
\* exactly the ones the validator accepts.
C17_SchemaTagsAgree ==
    exported # <<>> =>
        /\ \A i \in 1..Len(exported) :
              LET enum == exported[i].type_property.enum
                  r == ValidateContact(FullContact(enum[1]), <<>>)
              IN /\ Len(enum) = 1
                 /\ enum[1] = exported[i].tag
                 /\ r.errs = {}
                 /\ r.val.cls = exported[i].title
                 /\ TypeOf(r.val) = enum[1]
        /\ {exported[i].tag : i \in 1..Len(exported)} = get_annotated_subclass_types
        /\ \A i, j \in 1..Len(exported) : exported[i].tag = exported[j].tag => i = j
        /\ \E i \in 1..Len(exported) :
              /\ exported[i].title = contact.cls
              /\ exported[i].type_property.enum = <<TypeOf(contact)>>
              /\ GetItem(DumpContact(contact), <<"_type">>) = Str(exported[i].tag)

C17_Witness ==
    /\ exported # <<>>
    /\ contact.cls = "FamilyMember"
    /\ \E i \in 1..Len(exported) :
          /\ exported[i].title = "FamilyMember"
          /\ exported[i].type_property.enum = <<TypeOf(contact)>>

\* C18: the tag of a typed contact is read-only and derived: reading _type
\* returns the name of the value's own class; assigning _type raises
\* ValueError for every assigned value, the class name itself included, and
\* leaves the value and its tag as they were.
C18_TagReadOnly ==
    [][/\ tagOp'.op = "get" => tagOp'.result = <<contact'.cls>>
       /\ (tagOp'.op = "set" /\ tagOp' # tagOp)
             => /\ tagOp'.exc = "ValueError"
                /\ contact' = contact
                /\ TypeOf(contact') = TypeOf(contact)]_vars

C18_Witness ==
    /\ tagOp.op = "set"
    /\ contact.cls = "Friend"
    /\ tagOp.arg = <<"Friend">>
    /\ tagOp.exc = "ValueError"
    /\ TypeOf(contact) = <<"Friend">>

\* the step is the handling of a POST /{index}, of a POST /
Updating == request'.op = "update_person"
Creating == request'.op = "create_person"
\* the form of the request the step handles validates to a Person
FormValid == Accepted(model_validate2(request'.form))
\* the stored entry (from 1) that models[i] addresses
Slot(i) == IF i >= 0 THEN i + 1 ELSE Len(models) + i + 1

\* C21: a successful POST /{index} replaces exactly the stored entry at
\* that index by the validated value, every other entry and the number of
\* entries staying as they were; when the index addresses no stored entry
\* the response is 404 and the store is unchanged.
C21_UpdateFrame ==
    [][(Updating /\ FormValid) =>
          LET i == request'.index
              value == model_validate2(request'.form).report.val
          IN IF i >= Len(models) \/ i < 0 - Len(models)
             THEN response' = NotFound /\ models' = models
             ELSE /\ response' = EditPage(value, i)
                  /\ Len(models') = Len(models)
                  /\ models'[Slot(i)] = value
                  /\ \A j \in 1..Len(models) : j # Slot(i) => models'[j] = models[j]]_vars

C21_Witness ==
    /\ request.op = "update_person" /\ request.index = 1
    /\ response.status = 200
    /\ Len(models) = 2
    /\ models[1] = DummyModels[1]
    /\ models[2] = response.model
    /\ models[2] # DummyModels[2]

\* C22: every successful POST / makes the store one entry longer, puts the
\* validated value at the last index (the previous length) and leaves the
\* entries stored before unchanged and in place.
C22_CreateAppends ==
    [][(Creating /\ FormValid) =>
          /\ Len(models') = Len(models) + 1
          /\ models'[Len(models) + 1] = model_validate2(request'.form).report.val
          /\ \A j \in 1..Len(models) : models'[j] = models[j]
          /\ response' = HomePage(models')]_vars

C22_Witness ==
    /\ request.op = "create_person"
    /\ response.status = 200
    /\ Len(models) = 2
    /\ models[2] = model_validate2(request.form).report.val
    /\ models[1] # models[2]
    /\ response.people = models

\* C23: when the submitted form fails decoding or validation, POST / and
\* POST /{index} leave the store exactly as it was (nothing appended,
\* nothing replaced) and answer with an error, listing no person.
C23_RejectedFormNoEffect ==
    [][((Updating \/ Creating) /\ ~FormValid) =>
          /\ models' = models
          /\ response'.status \in {422, 500}
          /\ response'.people = <<>>]_vars

C23_Witness ==
    /\ request.op = "update_person" /\ request.index = 0
    /\ ~Accepted(model_validate2(request.form))
    /\ response.status = 422
    /\ models = DummyModels

\* C24: over any sequence of GET /, POST /, GET /{index} and POST /{index}
\* the number of stored entries never decreases: an index i >= 0 that
\* addresses a stored entry addresses one in every later state.
C24_StoreNeverShrinks ==
    [][/\ Len(models') >= Len(models)
       /\ \A i \in 0..MaxModels : ~IndexError(models, i) => ~IndexError(models', i)]_vars

C24_Witness ==
    /\ Len(models) = 2
    /\ request.op = "update_person" /\ request.index = 0 /\ response.status = 200
    /\ models[1] = response.model
    /\ models[2] # DummyModels[2]

\* an empty dict
IsEmptyDict(n) == IsDict(n) /\ n.keys = <<>>

\* C25: indexed_dicts_to_lists returns an empty dict as an empty dict
\* wherever it occurs in the tree: as the tree itself, as an element of a
\* list, as the value of a field of an enclosing object; it never turns it
\* into an empty list.
C25_EmptyDictUniform ==
    Normalized =>
        /\ IsEmptyDict(out) => IsEmptyDict(done)
        /\ \A i \in 1..Len(out.keys) :
              LET v == out.items[i]
                  w == FieldOf(done, out.keys[i])
              IN /\ IsEmptyDict(v) => IsEmptyDict(w)
                 /\ IsList(v) =>
                       \A j \in 1..Len(v.items) :
                           IsEmptyDict(v.items[j])
                           => (IsList(w) /\ Len(w.items) >= j /\ IsEmptyDict(w.items[j]))

\* a tree as Python's == sees it: a NestedDict equals the dict of its items
RECURSIVE Plain(_)
Plain(n) ==
    IF IsDict(n) THEN DictV(n.keys, [i \in 1..Len(n.items) |-> Plain(n.items[i])])
    ELSE IF IsList(n) THEN ListV([i \in 1..Len(n.items) |-> Plain(n.items[i])])
         ELSE n

\* every value of the form d is a string and no bracket key of d has a
\* segment that is a digit string
ScalarWordForm(d) ==
    /\ IsDict(d)
    /\ \A i \in 1..Len(d.keys) :
          /\ d.items[i].kind = "str"
          /\ IsStructured(d.keys[i])
                => \A m \in 1..Len(Segments(d.keys[i])) : ~IsDigit(Segments(d.keys[i])[m])

\* no plain key of d is a digit string
NoDigitName(d) == \A i \in 1..Len(d.keys) : ~IsDigit(d.keys[i])

\* stage 4 has decoded the form data, or failed on it
Stage4Ended == pc \in {"parsed", "validated", "raised"} /\ stage = 4 /\ source = "form"

\* the outcome of stage 4 in the state is the outcome of stage 2 on data
SameAsStage2 ==
    LET r == json_editor_parse2(data)
    IN /\ r.err = err
       /\ err = "" => Plain(r.node) = Plain(done)

\* C26 as stated: for every form of string values whose bracket keys have
\* no numeric segment, the decoder of stage 4 returns the tree the decoder
\* of stage 2 returns, or fails as it does.
C26_ConservativeExtension ==
    (Stage4Ended /\ ScalarWordForm(data)) => SameAsStage2

\* C26 amended: the same for the forms that in addition have no plain key
\* that is a digit string.
C26_ConservativeExtensionNoDigitName ==
    (Stage4Ended /\ ScalarWordForm(data) /\ NoDigitName(data)) => SameAsStage2

C26_Witness ==
    /\ Stage4Ended /\ pc = "parsed"
    /\ ScalarWordForm(data) /\ NoDigitName(data)
    /\ HasKey(data, BracketKey(<<<<"name">>>>))
    /\ HasKey(data, BracketKey(<<<<"address">>, <<"street">>>>))
    /\ IsDict(FieldOf(done, <<"address">>))
    /\ Plain(json_editor_parse2(data).node) = Plain(done)

====
